---- MODULE Spec2Model ----
(***************************************************************************)
(* Spark backend: a journal-entry store kept as one JSON file.             *)
(*                                                                         *)
(* src/backend/app.py holds the handlers.  The handlers create_entry,      *)
(* update_entry, delete_entry and unlock_entry are defined twice in the    *)
(* file; the later definitions (lines 151-255) are the ones modelled, as   *)
(* a later definition rebinds the name.  load_entries, save_entries,       *)
(* get_entries and get_entry are defined once (lines 27-64).  parse_date,  *)
(* format_iso8601 and normalize_entry are called by the handlers but their *)
(* definitions are not part of the source; they are modelled from          *)
(* section 4.1 of the specification.                                       *)
(*                                                                         *)
(* Strings that the code takes apart (timestamps) are sequences of tokens; *)
(* strings that it only copies and tests for emptiness are TLA+ strings.   *)
(*                                                                         *)
(* Four specifications: Spec serves the requests one at a time, SpecIO     *)
(* serves two at once and cuts each handler at its file operations,        *)
(* SpecLoad starts Spec on a file the server did not write, and SpecNorm   *)
(* applies parse_date alone.                                               *)
(***************************************************************************)
EXTENDS Integers, Sequences, FiniteSets, TLC

VARIABLES
    file,     \* the snapshot file DATA_FILE: [kind, entries]
    clock,    \* the last reading of the wall clock
    issued,   \* how many ids uuid4 has produced
    nops,     \* how many mutating requests have been served
    last,     \* the last request served and its response
    procs,    \* the requests in flight (specification SpecIO)
    norm      \* a string under parse_date (specification SpecNorm)

vars == <<file, clock, issued, nops, last, procs, norm>>

\* The server is observed until it has taken this many requests that write
\* the file.
MaxOps == 3

\* The strings given to parse_date alone are of at most this many tokens.
MaxLen == 3

------------------------------------------------------------------------------
(* Timestamps as strings: a sequence of tokens.                            *)

Tok(k, v) == [k |-> k, v |-> v]
\* "YYYY-MM-DDTHH:MM:SS.ffffff" of instant n (contains the letter T)
DT(n) == Tok("dt", n)
\* the same date-time spelled as isoformat does not write it (a space in
\* place of the letter T), which fromisoformat accepts
DS(n) == Tok("ds", n)
\* "+hh:00"
OFF(h) == Tok("off", h)
\* the letter Z
ZCH == Tok("Z", 0)
\* the letter T outside a date-time
TCH == Tok("T", 0)
\* any other character
XCH == Tok("x", 0)

\* Python None for a timestamp field, and the empty string
None == <<Tok("none", 0)>>
EmptyStr == <<>>

\* JSON null for an opaque field (geofence, weather, emotion)
Null == "null"

Truthy(s) == s /= None /\ s /= EmptyStr

EndsWithZ(s) == Len(s) > 0 /\ s[Len(s)] = ZCH

ContainsT(s) == \E i \in 1..Len(s) : s[i].k \in {"dt", "T"}

\* s.replace('Z', '+00:00')
ReplaceZ(s) == [i \in 1..Len(s) |-> IF s[i] = ZCH THEN OFF(0) ELSE s[i]]

\* datetime.fromisoformat accepts a date-time with or without an offset
Parses(s) ==
    \/ Len(s) = 1 /\ s[1].k \in {"dt", "ds"}
    \/ Len(s) = 2 /\ s[1].k \in {"dt", "ds"} /\ s[2].k = "off"

\* Serialize leaving the suffix "+00:00" as isoformat writes it
SerializeRawOffset(s) ==
    LET off == IF Len(s) = 2 THEN s[2].v ELSE 0
    IN  <<DT(s[1].v), OFF(off)>>

\* the parsed value, UTC assumed when there is no offset, serialized again
\* with isoformat: the offset is kept, "+00:00" is written as Z
Serialize(s) ==
    LET off == IF Len(s) = 2 THEN s[2].v ELSE 0
    IN  <<DT(s[1].v), IF off = 0 THEN ZCH ELSE OFF(off)>>

parse_date(s) ==
    IF ~Truthy(s) THEN None
    ELSE IF EndsWithZ(s) THEN s
    ELSE IF Parses(ReplaceZ(s)) THEN Serialize(ReplaceZ(s))
    ELSE IF ContainsT(s) /\ ~EndsWithZ(s) THEN Append(s, ZCH)
    ELSE s

format_iso8601(now) == <<DT(now), ZCH>>

normalize_entry(e) ==
    [e EXCEPT !.creationDate = parse_date(e.creationDate),
              !.earliestUnlock = parse_date(e.earliestUnlock),
              !.unlockedAt = parse_date(e.unlockedAt)]

\* canonical form: ends with the literal Z and carries no raw offset
Canonical(s) == EndsWithZ(s) /\ \A i \in 1..Len(s) : s[i].k /= "off"

------------------------------------------------------------------------------
(* Identifiers.  str(uuid.uuid4()) is lower case; a request may spell the  *)
(* id in upper case.  n = 0 is an id that was never issued.                *)

Id(n, up) == [n |-> n, up |-> up]
Lower(id) == [id EXCEPT !.up = FALSE]
Upper(id) == [id EXCEPT !.up = TRUE]
NoId == Id(0, FALSE)

\* uuid4 evaluated once, every entry given the same id
uuid4_once(k) == Id(1, FALSE)

\* uuid.uuid4(): a value not produced before
uuid4(k) == Id(k + 1, FALSE)

------------------------------------------------------------------------------
(* Request bodies: the keys present, and the value of each key.            *)

Has(data, k) == k \in data.keys
Get(data, k, default) == IF k \in data.keys THEN data[k] ELSE default

NoData ==
    [keys |-> {}, title |-> "", content |-> "",
     creationDate |-> None, earliestUnlock |-> None, unlockedAt |-> None,
     geofence |-> Null, weather |-> Null, emotion |-> Null]

------------------------------------------------------------------------------
(* The snapshot file.                                                      *)

NoFile == [kind |-> "absent", entries |-> <<>>]

\* the file holds the JSON text null: a JSON value that is no array
NullFile == [kind |-> "null", entries |-> <<>>]

\* what json.load returns for that text: None, which is no list
NoList == <<[null |-> TRUE]>>

\* [] when the file does not exist or json.load raises JSONDecodeError,
\* otherwise whatever json.load returns
load_entries(f) ==
    IF f.kind = "json" THEN f.entries
    ELSE IF f.kind = "null" THEN NoList
    ELSE <<>>

save_entries(entries) == [kind |-> "json", entries |-> entries]

------------------------------------------------------------------------------
(* The handlers, as functions of the request and of the loaded collection. *)
(* A response is [status, body, entries, save]: the HTTP status, the       *)
(* entries of the JSON body, the collection the handler holds at its end,  *)
(* and whether it reached save_entries.                                    *)

Response(status, body, entries, save) ==
    [status |-> status, body |-> body, entries |-> entries, save |-> save]

\* next((i for i, e in enumerate(entries) if e.get('id', '').lower() == entry_id_lower), None)
\* 0 stands for None
FindIndex(entries, entry_id) ==
    LET hits == {i \in 1..Len(entries) : Lower(entries[i].id) = Lower(entry_id)}
    IN  IF hits = {} THEN 0 ELSE CHOOSE i \in hits : \A j \in hits : i <= j

\* next((e for e in entries if e.get('id') == entry_id), None)
FindExact(entries, entry_id) ==
    LET hits == {i \in 1..Len(entries) : entries[i].id = entry_id}
    IN  IF hits = {} THEN 0 ELSE CHOOSE i \in hits : \A j \in hits : i <= j

\* an exception leaves the handler (None is not iterable, has no len and no
\* append): the server answers 500 and nothing is saved
Raise(entries) == Response(500, <<>>, entries, FALSE)

get_entries(entries) == Response(200, entries, entries, FALSE)

get_entry(entries, entry_id) ==
    IF entries = NoList THEN Raise(entries)
    ELSE LET i == FindExact(entries, entry_id)
         IN  IF i = 0 THEN Response(404, <<>>, entries, FALSE)
             ELSE Response(200, <<entries[i]>>, entries, FALSE)

\* x or format_iso8601(now)
OrNow(x, now) == IF Truthy(x) THEN x ELSE format_iso8601(now)

NewEntry(data, id, now) ==
    [id |-> id,
     title |-> data.title,
     content |-> data.content,
     creationDate |-> OrNow(parse_date(Get(data, "creationDate", None)), now),
     geofence |-> Get(data, "geofence", Null),
     weather |-> Get(data, "weather", Null),
     emotion |-> Get(data, "emotion", Null),
     earliestUnlock |-> OrNow(parse_date(Get(data, "earliestUnlock", None)), now),
     unlockedAt |-> parse_date(Get(data, "unlockedAt", None))]

\* if not data or 'title' not in data or 'content' not in data
Invalid(data) ==
    data.keys = {} \/ ~Has(data, "title") \/ ~Has(data, "content")

\* create_entry with entries.insert(0, entry) for entries.append(entry)
create_entry_first(data, entries, id, now) ==
    IF Invalid(data) THEN Response(400, <<>>, entries, FALSE)
    ELSE LET entry == NewEntry(data, id, now)
         IN  Response(201, <<normalize_entry(entry)>>, <<entry>> \o entries, TRUE)

create_entry(data, entries, id, now) ==
    IF Invalid(data) THEN Response(400, <<>>, entries, FALSE)
    ELSE IF entries = NoList THEN Raise(entries)
    ELSE LET entry == NewEntry(data, id, now)
         IN  Response(201, <<normalize_entry(entry)>>, Append(entries, entry), TRUE)

\* UpdateText as data.get(k, old): an empty value overwrites
UpdateTextAnyValue(old, data, k) ==
    IF Has(data, k) THEN data[k] ELSE old

UpdateText(old, data, k) ==
    IF Has(data, k) /\ data[k] /= "" THEN data[k] ELSE old

\* UpdateOpaque guarded like the text fields: null is "no change"
UpdateOpaqueIfTruthy(old, data, k) ==
    IF Has(data, k) /\ data[k] /= Null THEN data[k] ELSE old

UpdateOpaque(old, data, k) ==
    IF Has(data, k) THEN data[k] ELSE old

UpdateEarliestUnlock(old, data) ==
    IF Has(data, "earliestUnlock") /\ Truthy(parse_date(data.earliestUnlock))
    THEN parse_date(data.earliestUnlock)
    ELSE old

UpdateUnlockedAt(old, data) ==
    IF ~Has(data, "unlockedAt") THEN old
    ELSE IF Truthy(parse_date(data.unlockedAt)) THEN parse_date(data.unlockedAt)
    ELSE IF data.unlockedAt = None THEN None
    ELSE old

UpdateFields(entry, data) ==
    [entry EXCEPT
        !.title = UpdateText(entry.title, data, "title"),
        !.content = UpdateText(entry.content, data, "content"),
        !.geofence = UpdateOpaque(entry.geofence, data, "geofence"),
        !.weather = UpdateOpaque(entry.weather, data, "weather"),
        !.emotion = UpdateOpaque(entry.emotion, data, "emotion"),
        !.earliestUnlock = UpdateEarliestUnlock(entry.earliestUnlock, data),
        !.unlockedAt = UpdateUnlockedAt(entry.unlockedAt, data)]

\* update_entry merging the body into every entry of the list
update_entry_all(data, entries, entry_id) ==
    LET i == FindIndex(entries, entry_id)
    IN  IF i = 0 THEN Response(404, <<>>, entries, FALSE)
        ELSE Response(200, <<normalize_entry(UpdateFields(entries[i], data))>>,
                      [j \in 1..Len(entries) |-> UpdateFields(entries[j], data)],
                      TRUE)

update_entry(data, entries, entry_id) ==
    IF entries = NoList THEN Raise(entries)
    ELSE
    LET i == FindIndex(entries, entry_id)
    IN  IF i = 0 THEN Response(404, <<>>, entries, FALSE)
        ELSE LET entry == UpdateFields(entries[i], data)
             IN  Response(200, <<normalize_entry(entry)>>,
                          [entries EXCEPT ![i] = entry], TRUE)

\* [e for e in entries if e.get('id', '').lower() != entry_id_lower]
Without(entries, entry_id) ==
    SelectSeq(entries, LAMBDA e : Lower(e.id) /= Lower(entry_id))

\* delete_entry saving the collection it loaded instead of the filtered one
delete_entry_unfiltered(entries, entry_id) ==
    LET kept == Without(entries, entry_id)
    IN  IF Len(kept) = Len(entries) THEN Response(404, <<>>, kept, FALSE)
        ELSE Response(200, <<>>, entries, TRUE)

delete_entry(entries, entry_id) ==
    IF entries = NoList THEN Raise(entries)
    ELSE
    LET kept == Without(entries, entry_id)
    IN  IF Len(kept) = Len(entries) THEN Response(404, <<>>, kept, FALSE)
        ELSE Response(200, <<>>, kept, TRUE)

\* Stamp that keeps an unlockedAt already set
StampOnce(entry, now) ==
    IF entry.unlockedAt = None
    THEN [entry EXCEPT !.unlockedAt = format_iso8601(now)]
    ELSE entry

Stamp(entry, now) == [entry EXCEPT !.unlockedAt = format_iso8601(now)]

\* unlock_entry refusing an entry whose earliestUnlock is later than now
unlock_entry_gated(entries, entry_id, now) ==
    LET i == FindIndex(entries, entry_id)
    IN  IF i = 0 THEN Response(404, <<>>, entries, FALSE)
        ELSE IF /\ Len(entries[i].earliestUnlock) = 2
                /\ entries[i].earliestUnlock[1].k = "dt"
                /\ entries[i].earliestUnlock[1].v > now
             THEN Response(403, <<>>, entries, FALSE)
        ELSE LET entry == Stamp(entries[i], now)
             IN  Response(200, <<normalize_entry(entry)>>,
                          [entries EXCEPT ![i] = entry], TRUE)

\* unlock_entry falling back on the first entry when no id matches
unlock_entry_or_first(entries, entry_id, now) ==
    LET f == FindIndex(entries, entry_id)
        i == IF f = 0 /\ Len(entries) > 0 THEN 1 ELSE f
    IN  IF i = 0 THEN Response(404, <<>>, entries, FALSE)
        ELSE LET entry == Stamp(entries[i], now)
             IN  Response(200, <<normalize_entry(entry)>>,
                          [entries EXCEPT ![i] = entry], TRUE)

unlock_entry(entries, entry_id, now) ==
    IF entries = NoList THEN Raise(entries)
    ELSE
    LET i == FindIndex(entries, entry_id)
    IN  IF i = 0 THEN Response(404, <<>>, entries, FALSE)
        ELSE LET entry == Stamp(entries[i], now)
             IN  Response(200, <<normalize_entry(entry)>>,
                          [entries EXCEPT ![i] = entry], TRUE)

------------------------------------------------------------------------------
(* The requests the clients send.                                          *)

TsInputs ==
    { <<DT(0), ZCH>>,           \* a date that ends in Z
      <<DT(0), OFF(0)>>,        \* a date with offset +00:00
      <<DT(0), OFF(2)>>,        \* a date with a non-UTC offset
      <<DT(0)>>,                \* a date with no offset
      <<XCH>>,                  \* no date, no letter T
      <<TCH, XCH>> }            \* no date, with a letter T

Body(t, c) == [NoData EXCEPT !.keys = {"title", "content"}, !.title = t, !.content = c]

\* a body with every optional key
Full(x) ==
    [keys |-> {"title", "content", "creationDate", "earliestUnlock", "unlockedAt",
               "geofence", "weather", "emotion"},
     title |-> "T", content |-> "C",
     creationDate |-> x, earliestUnlock |-> x, unlockedAt |-> x,
     geofence |-> "home", weather |-> "clear", emotion |-> "happy"]

\* an instant later than every reading of the clock
Future == MaxOps + 1

\* a body whose earliestUnlock has not been reached
Deferred ==
    [Body("T", "C") EXCEPT !.keys = {"title", "content", "earliestUnlock"},
                           !.earliestUnlock = <<DT(Future), ZCH>>]

CreatePayloads ==
    { NoData,
      [NoData EXCEPT !.keys = {"content"}, !.content = "C"],
      [NoData EXCEPT !.keys = {"title"}, !.title = "T"],
      Body("T", "C"), Body("", "C"), Body("T", ""), Deferred }
    \cup {Full(x) : x \in TsInputs}

UpdatePayloads ==
    { [NoData EXCEPT !.keys = {"title"}, !.title = ""],
      [NoData EXCEPT !.keys = {"title"}, !.title = "New"],
      [NoData EXCEPT !.keys = {"content"}, !.content = ""],
      [NoData EXCEPT !.keys = {"content"}, !.content = "New"],
      [NoData EXCEPT !.keys = {"geofence"}],
      [NoData EXCEPT !.keys = {"weather"}],
      [NoData EXCEPT !.keys = {"emotion"}],
      [NoData EXCEPT !.keys = {"unlockedAt"}],
      [NoData EXCEPT !.keys = {"geofence", "weather", "emotion"},
                     !.geofence = "work", !.weather = "rain", !.emotion = "sad"] }
    \cup
    { [NoData EXCEPT !.keys = {"earliestUnlock", "unlockedAt"},
                     !.earliestUnlock = x, !.unlockedAt = x] :
        x \in {EmptyStr, <<DT(0), OFF(0)>>, <<XCH>>} }

\* the ids a request may name: the ids issued, as uuid4 printed them, the
\* first one spelled in upper case, and one never issued
IssuedIds == {Id(n, FALSE) : n \in 1..issued}
LookupIds == IssuedIds \cup {NoId, Id(1, TRUE)}

\* update requests: every payload for the id of a stored entry, one payload
\* for any other id
ProbeData == [NoData EXCEPT !.keys = {"title"}, !.title = "New"]

------------------------------------------------------------------------------
(* Requests served one at a time: each action is a whole handler, from     *)
(* load_entries to save_entries.                                           *)

Request(op, id, data, r, pre) ==
    [op |-> op, id |-> id, data |-> data, status |-> r.status, body |-> r.body,
     pre |-> pre, saved |-> r.save]

Serve(op, id, data, r) ==
    /\ nops < MaxOps
    /\ file' = IF r.save THEN save_entries(r.entries) ELSE file
    /\ nops' = IF r.save THEN nops + 1 ELSE nops
    /\ last' = Request(op, id, data, r, load_entries(file))
    /\ UNCHANGED <<procs, norm>>

GetEntries ==
    /\ Serve("list", NoId, NoData, get_entries(load_entries(file)))
    /\ UNCHANGED <<clock, issued>>

GetEntry ==
    \E id \in LookupIds :
        \E r \in {get_entry(load_entries(file), id)} :
            /\ Serve("get", id, NoData, r)
            /\ UNCHANGED <<clock, issued>>

CreateEntry ==
    \E data \in CreatePayloads :
        \E r \in {create_entry(data, load_entries(file), uuid4(issued), clock + 1)} :
            /\ Serve("create", NoId, data, r)
            /\ clock' = IF r.status = 201 THEN clock + 1 ELSE clock
            /\ issued' = IF r.status = 201 THEN issued + 1 ELSE issued

UpdateWith(id, data) ==
    \E r \in {update_entry(data, load_entries(file), id)} :
        /\ Serve("update", id, data, r)
        /\ UNCHANGED <<clock, issued>>

UpdateEntry ==
    \/ \E id \in IssuedIds, data \in UpdatePayloads :
            /\ FindIndex(load_entries(file), id) /= 0
            /\ UpdateWith(id, data)
    \/ \E id \in LookupIds : UpdateWith(id, ProbeData)

DeleteEntry ==
    \E id \in LookupIds :
        \E r \in {delete_entry(load_entries(file), id)} :
            /\ Serve("delete", id, NoData, r)
            /\ UNCHANGED <<clock, issued>>

UnlockEntry ==
    \E id \in LookupIds :
        \E r \in {unlock_entry(load_entries(file), id, clock + 1)} :
            /\ Serve("unlock", id, NoData, r)
            /\ clock' = IF r.status = 200 THEN clock + 1 ELSE clock
            /\ UNCHANGED issued

\* no string is under parse_date
Idle == [x |-> None, once |-> None, twice |-> None, n |-> 0]

NoRequest ==
    [op |-> "none", id |-> NoId, data |-> NoData, status |-> 0, body |-> <<>>,
     pre |-> <<>>, saved |-> FALSE]

Init ==
    /\ file = NoFile
    /\ clock = 0
    /\ issued = 0
    /\ nops = 0
    /\ last = NoRequest
    /\ procs = <<>>
    /\ norm = Idle

Next ==
    \/ GetEntries
    \/ GetEntry
    \/ CreateEntry
    \/ UpdateEntry
    \/ DeleteEntry
    \/ UnlockEntry

Spec == Init /\ [][Next]_vars

------------------------------------------------------------------------------
(* The server started on a file it did not write (specification SpecLoad): *)
(* DATA_FILE names no file, a file whose text is no JSON, a file that      *)
(* holds a JSON value other than an array, or an empty array.  Partial     *)
(* (defined below) is the file whose text is no JSON.                      *)

StartFiles ==
    {NoFile, [kind |-> "partial", entries |-> <<>>], NullFile, save_entries(<<>>)}

InitLoad ==
    /\ file \in StartFiles
    /\ clock = 0
    /\ issued = 0
    /\ nops = 0
    /\ last = NoRequest
    /\ procs = <<>>
    /\ norm = Idle

SpecLoad == InitLoad /\ [][Next]_vars

------------------------------------------------------------------------------
(* Requests served concurrently (specification SpecIO): the server runs    *)
(* each request in its own thread, and nothing orders the threads between  *)
(* load_entries and the end of save_entries.  A handler is cut at its file *)
(* operations: the load, open(DATA_FILE, 'w') which truncates the file,    *)
(* and json.dump with the close that flushes it.                           *)

Procs == {"p1", "p2"}

\* the file while it holds no complete JSON text: json.load raises
\* JSONDecodeError and load_entries answers []
Partial == [kind |-> "partial", entries |-> <<>>]

IdleProc ==
    [pc |-> "idle", op |-> "none", id |-> NoId, data |-> NoData,
     r |-> Response(0, <<>>, <<>>, FALSE), pre |-> <<>>, before |-> <<>>]

IORequests ==
    {<<"list", NoId, NoData>>, <<"create", NoId, Body("T", "C")>>}
    \cup {<<"get", id, NoData>> : id \in IssuedIds}
    \cup {<<"update", id, [NoData EXCEPT !.keys = {"title"}, !.title = "New"]>> :
            id \in IssuedIds}
    \cup {<<"delete", id, NoData>> : id \in IssuedIds}
    \cup {<<"unlock", id, NoData>> : id \in IssuedIds}

Handle(op, id, data, entries, newid, now) ==
    CASE op = "list" -> get_entries(entries)
      [] op = "get" -> get_entry(entries, id)
      [] op = "create" -> create_entry(data, entries, newid, now)
      [] op = "update" -> update_entry(data, entries, id)
      [] op = "delete" -> delete_entry(entries, id)
      [] op = "unlock" -> unlock_entry(entries, id, now)

\* the handler of a request runs up to its call of save_entries, or to its
\* return if it makes none; load_entries is its one read of the file
Load(p) ==
    /\ procs[p].pc = "idle"
    /\ \E req \in IORequests :
        \E r \in {Handle(req[1], req[2], req[3], load_entries(file),
                         uuid4(issued), clock + 1)} :
            /\ nops < MaxOps
            /\ procs' = [procs EXCEPT ![p] =
                    [pc |-> "loaded", op |-> req[1], id |-> req[2], data |-> req[3],
                     r |-> r, pre |-> load_entries(file), before |-> <<>>]]
            /\ nops' = IF r.save THEN nops + 1 ELSE nops
            /\ clock' = IF req[1] \in {"create", "unlock"} /\ r.save
                        THEN clock + 1 ELSE clock
            /\ issued' = IF req[1] = "create" THEN issued + 1 ELSE issued
    /\ UNCHANGED <<file, last, norm>>

\* the handler returns without saving
Reply(p) ==
    /\ procs[p].pc = "loaded"
    /\ ~procs[p].r.save
    /\ last' = Request(procs[p].op, procs[p].id, procs[p].data, procs[p].r,
                       procs[p].pre)
    /\ procs' = [procs EXCEPT ![p] = IdleProc]
    /\ UNCHANGED <<file, clock, issued, nops, norm>>

\* save_entries: open(DATA_FILE, 'w') truncates the file
Open(p) ==
    /\ procs[p].pc = "loaded"
    /\ procs[p].r.save
    /\ procs' = [procs EXCEPT ![p].pc = "opened", ![p].before = load_entries(file)]
    /\ file' = Partial
    /\ UNCHANGED <<clock, issued, nops, last, norm>>

\* Dump for a store that applies a create to the snapshot it replaces
\* instead of writing the list the handler loaded
DumpOntoSnapshot(p) ==
    /\ procs[p].pc = "opened"
    /\ file' = save_entries(IF procs[p].op = "create"
                            THEN procs[p].before \o procs[p].r.body
                            ELSE procs[p].r.entries)
    /\ last' = Request(procs[p].op, procs[p].id, procs[p].data, procs[p].r,
                       procs[p].pre)
    /\ procs' = [procs EXCEPT ![p] = IdleProc]
    /\ UNCHANGED <<clock, issued, nops, norm>>

\* save_entries: json.dump and the close write the text from offset 0.  If
\* another thread wrote its text after this one truncated the file, what
\* lies beyond the end of this text stays in the file.
Dump(p) ==
    /\ procs[p].pc = "opened"
    /\ \/ file' = save_entries(procs[p].r.entries)
       \/ file.kind = "json" /\ file' = Partial
    /\ last' = Request(procs[p].op, procs[p].id, procs[p].data, procs[p].r,
                       procs[p].pre)
    /\ procs' = [procs EXCEPT ![p] = IdleProc]
    /\ UNCHANGED <<clock, issued, nops, norm>>

\* save_entries: the write raises OSError (the disk is full); the exception
\* leaves the handler and the server answers 500
DumpFails(p) ==
    /\ procs[p].pc = "opened"
    /\ file' = Partial
    /\ last' = Request(procs[p].op, procs[p].id, procs[p].data,
                       Response(500, <<>>, procs[p].r.entries, TRUE), procs[p].pre)
    /\ procs' = [procs EXCEPT ![p] = IdleProc]
    /\ UNCHANGED <<clock, issued, nops, norm>>

InitIO ==
    /\ file = NoFile
    /\ clock = 0
    /\ issued = 0
    /\ nops = 0
    /\ last = NoRequest
    /\ procs = [p \in Procs |-> IdleProc]
    /\ norm = Idle

NextIO ==
    \E p \in Procs :
        \/ Load(p)
        \/ Reply(p)
        \/ Open(p)
        \/ Dump(p)
        \/ DumpFails(p)

SpecIO == InitIO /\ [][NextIO]_vars

------------------------------------------------------------------------------
(* parse_date on its own (specification SpecNorm): a string is chosen,     *)
(* parse_date is applied to it, and then to its own result.                *)

NormTokens == {DT(0), DS(0), OFF(0), OFF(2), ZCH, TCH, XCH}

NormInputs == {None} \cup UNION {[1..k -> NormTokens] : k \in 0..MaxLen}

Normalize ==
    /\ norm.n = 0
    /\ norm' = [norm EXCEPT !.once = parse_date(norm.x), !.n = 1]
    /\ UNCHANGED <<file, clock, issued, nops, last, procs>>

NormalizeAgain ==
    /\ norm.n = 1
    /\ norm' = [norm EXCEPT !.twice = parse_date(norm.once), !.n = 2]
    /\ UNCHANGED <<file, clock, issued, nops, last, procs>>

InitNorm ==
    /\ file = NoFile
    /\ clock = 0
    /\ issued = 0
    /\ nops = 0
    /\ last = NoRequest
    /\ procs = <<>>
    /\ norm \in {[Idle EXCEPT !.x = s] : s \in NormInputs}

NextNorm ==
    \/ Normalize
    \/ NormalizeAgain

SpecNorm == InitNorm /\ [][NextNorm]_vars

------------------------------------------------------------------------------
(* Properties of parse_date (specification SpecNorm).                      *)

\* the string is one that datetime.fromisoformat accepts once its Z is
\* replaced: a date-time with Z, with an offset, or with neither
ParsesSuccessfully(x) == Truthy(x) /\ Parses(ReplaceZ(x))

\* C11: on every input that parses, normalizing the result of the normalizer
\* gives that result again; a date-time that ends in Z is returned as it is,
\* and one with the offset +00:00 is returned with Z in its place.
C11_NormalizeIdempotent ==
    /\ (norm.n = 2 /\ ParsesSuccessfully(norm.x)) => norm.twice = norm.once
    /\ (norm.n >= 1 /\ norm.x = <<DT(0), ZCH>>) => norm.once = <<DT(0), ZCH>>
    /\ (norm.n >= 1 /\ norm.x = <<DT(0), OFF(0)>>) => norm.once = <<DT(0), ZCH>>

\* a date-time with no offset, rewritten by the first pass and kept by the
\* second
C11_Witness ==
    /\ norm.n = 2
    /\ norm.x = <<DS(0)>>
    /\ norm.once = <<DT(0), ZCH>>
    /\ norm.twice = norm.once

------------------------------------------------------------------------------
(* Properties of requests served one at a time (specification Spec).       *)

Store == load_entries(file)
TsFields == {"creationDate", "earliestUnlock", "unlockedAt"}
OpaqueFields == {"geofence", "weather", "emotion"}

\* the last request was an update that found its entry
Updated == last.op = "update" /\ last.status = 200
\* the entry the last request addressed, before and after it
Target == FindIndex(last.pre, last.id)
Old == last.pre[Target]
New == Store[Target]

\* C1: after a successful create returning entry E with id I, a get(I) issued
\* immediately afterwards returns E, and so does a get that spells I in
\* another case.
C1_GetAfterCreate ==
    [][(/\ last.op = "create" /\ last.status = 201
        /\ last'.op = "get"
        /\ Lower(last'.id) = Lower(last.body[1].id))
       => (last'.status = 200 /\ last'.body = last.body)]_vars

\* C2: create answers 400 whenever title or content is absent or empty, and
\* then the stored collection is what it was.
C2_CreateRejectsEmpty ==
    (/\ last.op = "create"
     /\ \/ ~Has(last.data, "title") \/ last.data.title = ""
        \/ ~Has(last.data, "content") \/ last.data.content = "")
    => (last.status = 400 /\ Store = last.pre)

\* C3: an update never replaces title or content by an empty value: an empty
\* or absent title (content) leaves the field as it was, a non-empty one
\* replaces it and leaves the other field alone.
C3_UpdateKeepsText ==
    Updated =>
        \A k \in {"title", "content"} :
            /\ New[k] = "" => Old[k] = ""
            /\ (~Has(last.data, k) \/ last.data[k] = "") => New[k] = Old[k]
            /\ (Has(last.data, k) /\ last.data[k] /= "") => New[k] = last.data[k]

C3_Witness ==
    /\ Updated
    /\ last.data.keys = {"title"}
    /\ last.data.title = ""
    /\ Old.title /= ""
    /\ Old.content /= ""

\* C4: for each of geofence, weather, emotion and unlockedAt, an update that
\* carries the key with null stores null, and an update that does not carry
\* the key leaves the stored field as it was.
C4_NullClearsAbsentKeeps ==
    Updated =>
        /\ \A k \in OpaqueFields :
            /\ (Has(last.data, k) /\ last.data[k] = Null) => New[k] = Null
            /\ ~Has(last.data, k) => New[k] = Old[k]
        /\ (Has(last.data, "unlockedAt") /\ last.data.unlockedAt = None)
               => New.unlockedAt = None
        /\ ~Has(last.data, "unlockedAt") => New.unlockedAt = Old.unlockedAt

C4_Witness ==
    /\ Updated
    /\ last.data.keys = {"geofence"}
    /\ last.data.geofence = Null
    /\ Old.geofence /= Null
    /\ Old.weather /= Null
    /\ Old.unlockedAt /= None
    /\ New.geofence = Null

\* C5: after a successful delete(id) a get(id) answers 404, however the id
\* is spelled; a delete that matches no entry answers 404 and leaves the
\* stored collection as it was.
C5_DeleteThenGet ==
    /\ (last.op = "delete" /\ last.status = 200)
       => /\ FindIndex(last.pre, last.id) /= 0
          /\ \A id \in {last.id, Lower(last.id), Upper(last.id)} :
                get_entry(Store, id).status = 404
    /\ (last.op = "delete" /\ FindIndex(last.pre, last.id) = 0)
       => (last.status = 404 /\ Store = last.pre)

\* a delete that removed the first of two entries
C5_Witness ==
    /\ last.op = "delete"
    /\ last.status = 200
    /\ Len(last.pre) = 2
    /\ Len(Store) = 1
    /\ Target = 1

\* a canonical stamp a is later than a canonical stamp b
Later(a, b) ==
    /\ Len(a) = 2 /\ a[1].k = "dt"
    /\ Len(b) = 2 /\ b[1].k = "dt"
    /\ a[1].v > b[1].v

\* s was written by unlock_entry: the clock is read from 1 on, the
\* timestamps that requests supply are of instant 0
Stamped(s) == \E n \in 1..clock : s = format_iso8601(n)

\* C6: unlock of an existing entry stores and returns a non-null unlockedAt
\* in canonical form; on an entry that an earlier unlock stamped, it stores
\* a later timestamp.
C6_UnlockStamps ==
    (last.op = "unlock" /\ last.status = 200)
    => /\ New.unlockedAt /= None
       /\ Canonical(New.unlockedAt)
       /\ last.body[1].unlockedAt = New.unlockedAt
       /\ Stamped(Old.unlockedAt) => Later(New.unlockedAt, Old.unlockedAt)

\* the second unlock of an entry
C6_Witness ==
    /\ last.op = "unlock"
    /\ last.status = 200
    /\ Stamped(Old.unlockedAt)
    /\ Later(New.unlockedAt, Old.unlockedAt)

AllCanonical(e) ==
    \A k \in TsFields : e[k] /= None => Canonical(e[k])

\* C7: every timestamp of every stored entry, and of every entry in a
\* response, is null or in canonical form, whatever strings were supplied.
C7_TimestampsCanonical ==
    /\ \A i \in 1..Len(Store) : AllCanonical(Store[i])
    /\ \A i \in 1..Len(last.body) : AllCanonical(last.body[i])

IdsOf(entries) == [i \in 1..Len(entries) |-> entries[i].id]

Unique(ids) ==
    \A i, j \in 1..Len(ids) : Lower(ids[i]) = Lower(ids[j]) => i = j

\* C8: no two stored entries share an id, and every request keeps the ids of
\* the entries it keeps: the ids are those before it, or those before it
\* followed by one new id (create), or those before it without the id
\* deleted; update and unlock leave them as they were.
C8_IdsUniqueAndKept ==
    LET a == IdsOf(last.pre)
        b == IdsOf(Store)
    IN  /\ Unique(b)
        /\ \/ b = a
           \/ /\ last.op = "create"
              /\ Len(b) = Len(a) + 1
              /\ SubSeq(b, 1, Len(a)) = a
           \/ /\ last.op = "delete"
              /\ b = SelectSeq(a, LAMBDA x : Lower(x) /= Lower(last.id))
        /\ last.op \in {"update", "unlock"} => b = a

C8_Witness ==
    /\ Len(Store) = 2
    /\ last.op \in {"update", "unlock"}
    /\ last.status = 200
    /\ Target = 2
    /\ New /= Old

\* C12: a get, an update or an unlock whose id matches no stored entry
\* answers 404 and does not reach save_entries: the stored collection is the
\* one before the request.  This includes an id issued earlier whose entry
\* has been deleted.
C12_NotFoundPersistsNothing ==
    (last.op \in {"get", "update", "unlock"} /\ FindIndex(last.pre, last.id) = 0)
    => /\ last.status = 404
       /\ ~last.saved
       /\ Store = last.pre
       /\ file.kind = "absent" <=> nops = 0

\* an unlock of the first id issued, after its entry was deleted
C12_Witness ==
    /\ last.op = "unlock"
    /\ last.id = Id(1, FALSE)
    /\ issued >= 1
    /\ nops = 2
    /\ FindIndex(last.pre, last.id) = 0
    /\ last.status = 404

\* the last request was a create that succeeded
Created == last.op = "create" /\ last.status = 201

\* C13: a successful create appends exactly one entry: what list returns
\* afterwards is the collection before the create followed by the entry the
\* create returned; that entry has an id, the title and the content of the
\* request, and a creationDate and an earliestUnlock that are the time of
\* the create, in canonical form, when the request does not carry them.
C13_CreateAppendsOne ==
    Created =>
        /\ Len(last.body) = 1
        /\ get_entries(Store).body = Append(last.pre, last.body[1])
        /\ last.body[1].id.n > 0
        /\ last.body[1].title = last.data.title
        /\ last.body[1].content = last.data.content
        /\ \A k \in {"creationDate", "earliestUnlock"} :
              ~Has(last.data, k) =>
                  /\ last.body[1][k] = format_iso8601(clock)
                  /\ Canonical(last.body[1][k])

\* a create of title T and content C with no timestamps, on a store that
\* holds an entry
C13_Witness ==
    /\ Created
    /\ last.data = Body("T", "C")
    /\ Len(last.pre) = 1
    /\ Len(Store) = 2

\* C14: unlock of an existing entry succeeds and stores the current time as
\* unlockedAt, whether or not the entry's earliestUnlock has been reached
\* and whatever unlockedAt was; the status of every request is decided by
\* the id and the body alone, never by earliestUnlock.
C14_UnlockUnconditional ==
    /\ (last.op = "unlock" /\ Target /= 0)
       => /\ last.status = 200
          /\ New.unlockedAt = format_iso8601(clock)
          /\ last.body[1].unlockedAt = format_iso8601(clock)
    /\ last.op \in {"update", "delete", "unlock"}
       => last.status = IF Target /= 0 THEN 200 ELSE 404
    /\ last.op = "get"
       => last.status = IF FindExact(last.pre, last.id) /= 0 THEN 200 ELSE 404
    /\ last.op = "list" => last.status = 200
    /\ last.op = "create"
       => last.status = IF Invalid(last.data) THEN 400 ELSE 201

\* an unlock of a locked entry before its earliestUnlock
C14_Witness ==
    /\ last.op = "unlock"
    /\ last.status = 200
    /\ Old.earliestUnlock = <<DT(Future), ZCH>>
    /\ Future > clock
    /\ Old.unlockedAt = None
    /\ New.unlockedAt = format_iso8601(clock)

\* C15: an update that carries unlockedAt with a value that is not null and
\* does not parse as a timestamp (the empty string, or a string that is no
\* date) succeeds and leaves the stored unlockedAt as it was.
C15_UnusableUnlockedAtKept ==
    (/\ last.op = "update"
     /\ Target /= 0
     /\ Has(last.data, "unlockedAt")
     /\ last.data.unlockedAt /= None
     /\ ~ParsesSuccessfully(last.data.unlockedAt))
    => (last.status = 200 /\ New.unlockedAt = Old.unlockedAt)

\* the entry does not carry the id the last request named
Other(e) == Lower(e.id) /= Lower(last.id)

------------------------------------------------------------------------------
(* Properties of requests served concurrently (specification SpecIO).      *)

\* C9: a load made while another request is inside save_entries returns the
\* complete collection as it was before that write or as it is after it.
C9_LoadSeesWholeSnapshot ==
    [][\A p \in Procs, q \in Procs :
        (/\ procs[p].pc = "idle" /\ procs'[p].pc = "loaded"
         /\ procs[q].pc = "opened")
        => procs'[p].pre \in {procs[q].before, procs[q].r.entries}]_vars

\* C10: when the write of the snapshot fails, the caller is told and the
\* snapshot stored before the request is intact: a load after the failed
\* request returns the collection stored before it.
C10_FailedWriteKeepsSnapshot ==
    [][\A p \in Procs :
        (/\ procs[p].pc = "opened" /\ procs'[p].pc = "idle"
         /\ last'.status = 500
         /\ procs[p].before = procs[p].pre)
        => (last'.op = procs[p].op /\ load_entries(file') = procs[p].pre)]_vars

\* p completes its write and the file holds a JSON text
Persists(p) ==
    /\ procs[p].pc = "opened"
    /\ procs'[p].pc = "idle"
    /\ last'.status \in {200, 201}
    /\ file'.kind = "json"

\* C16: nothing orders two requests between the load of one and its
\* persist: a request that loaded before another persisted still writes the
\* list it computed from its own load, so the snapshot after its write holds
\* its change and not the other's (last writer wins).
C16_LastWriterWins ==
    [][\A p \in Procs :
        Persists(p) => load_entries(file') = procs[p].r.entries]_vars

\* two creates: the first has reported success and its entry is in the
\* file; the second, which loaded the empty collection before that, has
\* opened the file and is about to write a list without the first entry
C16_Witness ==
    \E p \in Procs :
        /\ procs[p].pc = "opened"
        /\ procs[p].op = "create"
        /\ procs[p].pre = <<>>
        /\ Len(procs[p].before) = 1
        /\ last.op = "create"
        /\ last.status = 201
        /\ last.body = procs[p].before
        /\ Len(procs[p].r.entries) = 1
        /\ procs[p].r.entries[1].id /= procs[p].before[1].id

------------------------------------------------------------------------------
(* Properties of the load (specification SpecLoad).                        *)

\* C17: when the file is absent, is no JSON or holds no JSON array, the
\* load gives the empty collection: list answers 200 with no entry, get,
\* update, delete and unlock answer 404, and a valid create answers 201 and
\* leaves a snapshot that holds the new entry alone.
C17_LoadNeverFails ==
    [][file.kind /= "json" =>
        /\ last'.pre = <<>>
        /\ last'.op = "list" => (last'.status = 200 /\ last'.body = <<>>)
        /\ last'.op \in {"get", "update", "delete", "unlock"} => last'.status = 404
        /\ (last'.op = "create" /\ ~Invalid(last'.data))
           => /\ last'.status = 201
              /\ file'.kind = "json"
              /\ load_entries(file') = last'.body]_vars

====
